---- MODULE Spec2Model ----
(***************************************************************************)
(* Robot fleet navigation and delivery coordination of Menumated:          *)
(*   RobotPathfinding  (backend/src/utils/pathfinding.ts)                  *)
(*   RobotController   (backend/src/services/robotController.ts)           *)
(* Positions are records [x, y]; grid[y][x] of the source is               *)
(* grid[y + 1][x + 1] here (sequences are 1-based).                        *)
(***************************************************************************)
EXTENDS Integers, Sequences, FiniteSets, TLC

Abs(n) == IF n < 0 THEN -n ELSE n

Max(a, b) == IF a > b THEN a ELSE b

Pos(px, py) == [x |-> px, y |-> py]

(***************************************************************************)
(* RobotPathfinding                                                        *)
(***************************************************************************)

\* constructor: height = grid.length, width = grid[0].length
GridHeight(grid) == Len(grid)

GridWidth(grid) == Len(grid[1])

isValid(grid, pos) ==
    /\ pos.x >= 0 /\ pos.x < GridWidth(grid)
    /\ pos.y >= 0 /\ pos.y < GridHeight(grid)

\* a walkability test that lets the robot onto kitchen cells (code 2)
isWalkableOrKitchen(grid, pos) ==
    /\ pos.x + 1 <= Len(grid[pos.y + 1])
    /\ grid[pos.y + 1][pos.x + 1] \in {0, 2}

\* 0 = walkable; a row that ends before pos.x gives undefined, which is not 0
isWalkable(grid, pos) ==
    /\ pos.x + 1 <= Len(grid[pos.y + 1])
    /\ grid[pos.y + 1][pos.x + 1] = 0

heuristic(a, b) == Abs(a.x - b.x) + Abs(a.y - b.y)

\* moves that cannot be taken back: no step to the West
directionsOneWay == << Pos(0, -1), Pos(1, 0), Pos(0, 1) >>

\* the four directions and the four diagonals
directionsWithDiagonals ==
    << Pos(0, -1), Pos(1, 0), Pos(0, 1), Pos(-1, 0),
       Pos(1, -1), Pos(1, 1), Pos(-1, 1), Pos(-1, -1) >>

\* North, East, South, West, in the order the source lists them
directions == << Pos(0, -1), Pos(1, 0), Pos(0, 1), Pos(-1, 0) >>

\* neighbours filtered by the bounds alone, obstacles included
getNeighborsThroughObstacles(grid, pos) ==
    LET cand == [i \in 1..Len(directions) |-> Pos(pos.x + directions[i].x, pos.y + directions[i].y)]
        ok(p) == isValid(grid, p)
    IN  SelectSeq(cand, ok)

getNeighbors(grid, pos) ==
    LET cand == [i \in 1..Len(directions) |-> Pos(pos.x + directions[i].x, pos.y + directions[i].y)]
        ok(p) == isValid(grid, p) /\ isWalkable(grid, p)
    IN  SelectSeq(cand, ok)

\* A search node; parent is <<>> (null) or <<node>>
MkNode(p, gScore, hScore, par) ==
    [position |-> p, g |-> gScore, h |-> hScore, f |-> gScore + hScore, parent |-> par]

\* a walk up the parent links that stops short of the start node
RECURSIVE reconstructPathWithoutStart(_)
reconstructPathWithoutStart(node) ==
    IF node.parent = <<>> THEN <<>>
    ELSE Append(reconstructPathWithoutStart(node.parent[1]), node.position)

RECURSIVE reconstructPath(_)
reconstructPath(node) ==
    IF node.parent = <<>> THEN << node.position >>
    ELSE Append(reconstructPath(node.parent[1]), node.position)

\* a sort by descending f: the most expensive node is expanded first
InsertByFDescending(sorted, n) ==
    LET k == Cardinality({i \in 1..Len(sorted) : sorted[i].f >= n.f})
    IN  SubSeq(sorted, 1, k) \o << n >> \o SubSeq(sorted, k + 1, Len(sorted))

\* openList.sort((a, b) => a.f - b.f): a stable sort by ascending f
InsertByF(sorted, n) ==
    LET k == Cardinality({i \in 1..Len(sorted) : sorted[i].f <= n.f})
    IN  SubSeq(sorted, 1, k) \o << n >> \o SubSeq(sorted, k + 1, Len(sorted))

RECURSIVE SortByF(_)
SortByF(s) ==
    IF s = <<>> THEN <<>>
    ELSE InsertByF(SortByF(SubSeq(s, 1, Len(s) - 1)), s[Len(s)])

\* a neighbour loop that pushes a neighbour without looking for it in openList
RECURSIVE RelaxNeighborsDuplicating(_, _, _, _, _, _)
RelaxNeighborsDuplicating(neighbors, i, currentNode, end, openList, closedList) ==
    IF i > Len(neighbors) THEN openList
    ELSE
      LET neighborPos == neighbors[i]
          gScore == currentNode.g + 1
          hScore == heuristic(neighborPos, end)
          next ==
            IF neighborPos \in closedList THEN openList
            ELSE Append(openList, MkNode(neighborPos, gScore, hScore, << currentNode >>))
      IN  RelaxNeighborsDuplicating(neighbors, i + 1, currentNode, end, next, closedList)

\* the body of "for (const neighborPos of neighbors)", neighbours i..Len
RECURSIVE RelaxNeighbors(_, _, _, _, _, _)
RelaxNeighbors(neighbors, i, currentNode, end, openList, closedList) ==
    IF i > Len(neighbors) THEN openList
    ELSE
      LET neighborPos == neighbors[i]
          gScore == currentNode.g + 1
          hScore == heuristic(neighborPos, end)
          fScore == gScore + hScore
          found == {j \in 1..Len(openList) : openList[j].position = neighborPos}
          next ==
            IF neighborPos \in closedList THEN openList
            ELSE IF found # {} THEN
              LET j == CHOOSE k \in found : \A m \in found : k <= m
              IN  IF gScore < openList[j].g
                  THEN [openList EXCEPT ![j] =
                          [@ EXCEPT !.g = gScore, !.f = fScore,
                                    !.parent = << currentNode >>]]
                  ELSE openList
            ELSE Append(openList, MkNode(neighborPos, gScore, hScore, << currentNode >>))
      IN  RelaxNeighbors(neighbors, i + 1, currentNode, end, next, closedList)

NotFound == [found |-> FALSE, path |-> <<>>]

Found(p) == [found |-> TRUE, path |-> p]

\* "while (openList.length > 0)"
RECURSIVE SearchLoop(_, _, _, _)
SearchLoop(grid, end, openList, closedList) ==
    IF openList = <<>> THEN NotFound
    ELSE
      LET sorted == SortByF(openList)
          currentNode == Head(sorted)
          rest == Tail(sorted)
          closed2 == closedList \cup {currentNode.position}
      IN  IF currentNode.position = end
          THEN Found(reconstructPath(currentNode))
          ELSE SearchLoop(grid, end,
                  RelaxNeighbors(getNeighbors(grid, currentNode.position), 1,
                                 currentNode, end, rest, closed2),
                  closed2)

\* a search that validates the positions but not the cells they name
findPathUnchecked(grid, start, end) ==
    IF ~isValid(grid, start) \/ ~isValid(grid, end) THEN NotFound
    ELSE SearchLoop(grid, end, << MkNode(start, 0, heuristic(start, end), <<>>) >>, {})

findPath(grid, start, end) ==
    IF ~isValid(grid, start) \/ ~isValid(grid, end) THEN NotFound
    ELSE IF ~isWalkable(grid, start) \/ ~isWalkable(grid, end) THEN NotFound
    ELSE SearchLoop(grid, end, << MkNode(start, 0, heuristic(start, end), <<>>) >>, {})

\* the iterations of the while loop of findPath: the position taken from
\* openList, and openList and closedList at the end of the iteration
RECURSIVE SearchTrace(_, _, _, _, _)
SearchTrace(grid, end, openList, closedList, trace) ==
    IF openList = <<>> THEN trace
    ELSE
      LET sorted == SortByF(openList)
          currentNode == Head(sorted)
          rest == Tail(sorted)
          closed2 == closedList \cup {currentNode.position}
          next == IF currentNode.position = end THEN rest
                  ELSE RelaxNeighbors(getNeighbors(grid, currentNode.position), 1,
                                      currentNode, end, rest, closed2)
          iteration == [position |-> currentNode.position,
                        open |-> [k \in 1..Len(next) |-> next[k].position],
                        closed |-> closed2]
      IN  IF currentNode.position = end THEN Append(trace, iteration)
          ELSE SearchTrace(grid, end, next, closed2, Append(trace, iteration))

\* the iterations findPath(start, end) makes
findPathTrace(grid, start, end) ==
    IF ~isValid(grid, start) \/ ~isValid(grid, end) THEN <<>>
    ELSE IF ~isWalkable(grid, start) \/ ~isWalkable(grid, end) THEN <<>>
    ELSE SearchTrace(grid, end, << MkNode(start, 0, heuristic(start, end), <<>>) >>, {}, <<>>)

\* Math.round(num / den) for den > 0: the nearest integer, halves upwards
RoundDiv(num, den) == (2 * num + den) \div (2 * den)

\* a sight test that samples the two end cells only
hasLineOfSightEndsOnly(grid, a, b) ==
    LET dx == b.x - a.x
        dy == b.y - a.y
        steps == Max(Abs(dx), Abs(dy))
    IN  IF steps = 0 THEN FALSE
        ELSE \A i \in {0, steps} :
               LET p == Pos(RoundDiv(a.x * steps + dx * i, steps),
                            RoundDiv(a.y * steps + dy * i, steps))
               IN  isValid(grid, p) /\ isWalkable(grid, p)

\* steps = 0 gives NaN coordinates in the source, which isValid rejects
hasLineOfSight(grid, a, b) ==
    LET dx == b.x - a.x
        dy == b.y - a.y
        steps == Max(Abs(dx), Abs(dy))
    IN  IF steps = 0 THEN FALSE
        ELSE \A i \in 0..steps :
               LET p == Pos(RoundDiv(a.x * steps + dx * i, steps),
                            RoundDiv(a.y * steps + dy * i, steps))
               IN  isValid(grid, p) /\ isWalkable(grid, p)

\* the loop of smoothPath taking the nearest visible waypoint, not the farthest
RECURSIVE SmoothFromNearest(_, _, _, _)
SmoothFromNearest(grid, path, current, smoothed) ==
    IF current >= Len(path) THEN smoothed
    ELSE
      LET visible == {i \in (current + 2)..Len(path) :
                        hasLineOfSight(grid, path[current], path[i])}
          farthest == IF visible = {} THEN current + 1
                      ELSE CHOOSE i \in visible : \A j \in visible : i <= j
      IN  SmoothFromNearest(grid, path, farthest, Append(smoothed, path[farthest]))

\* the loop of smoothPath ending one waypoint early
RECURSIVE SmoothFromStoppingEarly(_, _, _, _)
SmoothFromStoppingEarly(grid, path, current, smoothed) ==
    IF current >= Len(path) - 1 THEN smoothed
    ELSE
      LET visible == {i \in (current + 2)..Len(path) :
                        hasLineOfSight(grid, path[current], path[i])}
          farthest == IF visible = {} THEN current + 1
                      ELSE CHOOSE i \in visible : \A j \in visible : j <= i
      IN  SmoothFromStoppingEarly(grid, path, farthest, Append(smoothed, path[farthest]))

\* indices are 1-based: current = 1 is path[0]
RECURSIVE SmoothFrom(_, _, _, _)
SmoothFrom(grid, path, current, smoothed) ==
    IF current >= Len(path) THEN smoothed
    ELSE
      LET visible == {i \in (current + 2)..Len(path) :
                        hasLineOfSight(grid, path[current], path[i])}
          farthest == IF visible = {} THEN current + 1
                      ELSE CHOOSE i \in visible : \A j \in visible : j <= i
      IN  SmoothFrom(grid, path, farthest, Append(smoothed, path[farthest]))

smoothPath(grid, path) ==
    IF Len(path) <= 2 THEN path
    ELSE SmoothFrom(grid, path, 1, << path[1] >>)

(***************************************************************************)
(* The records of the repository (models/schemas) and the floor layout     *)
(***************************************************************************)

\* RestaurantLayout 'main_floor': grid[y][x], 0 = empty, 1 = obstacle
LayoutGrid == << << 0, 0, 0 >>,
                 << 0, 1, 0 >>,
                 << 0, 0, 0 >> >>

\* layout.locations.kitchen
Kitchen == Pos(0, 0)

\* Robot documents in the collection's natural order
RobotOrder == << "R1", "R2", "R3" >>

Robots == {RobotOrder[i] : i \in 1..Len(RobotOrder)}

OrderIds == {"O1", "O2", "O3", "O4"}

\* order ids a caller may pass; "O9" names no Order document
CallArgs == OrderIds \cup {"O9"}

\* Order.table_number
TableOf(oid) ==
    CASE oid = "O1" -> 1
      [] oid = "O2" -> 2
      [] oid = "O3" -> 3
      [] OTHER      -> 4

\* Table documents: table 3 stands on an obstacle cell, table 4 does not exist
TableNumbers == {1, 2, 3}

TableLocation(n) ==
    CASE n = 1 -> Pos(2, 2)
      [] n = 2 -> Pos(2, 0)
      [] OTHER -> Pos(1, 1)

NoId == "none"

\* the number of assign calls
MaxCalls == 2

\* the number of store failures injected into assign
MaxFailures == 1

\* Handlers run from await to await. A run has at most this many disruptions:
\* an emergency stop, or an awaiting handler overtaken by another handler (a
\* second request, the next firing of a timer); otherwise the next step of
\* the awaiting handler comes first.
MaxDisruptions == 1

\* handleRobotArrival / returnRobotToKitchen chains one movement task can have
MaxArrivals == 2

Calls == 1..MaxCalls

Slots == 1..MaxArrivals

\* battery_level: { $gt: 20 }
MinBattery == 20

(***************************************************************************)
(* State                                                                   *)
(***************************************************************************)
VARIABLES
    robots,        \* the Robot collection: robot_id -> document
    orders,        \* the Order collection: order_id -> document
    layoutFound,   \* whether initialize() found the layout (this.layout # null)
    call,          \* assignRobotToOrder invocations: locals and position
    task,          \* simulateRobotMovement of a call: closure of moveInterval
    ret,           \* handleRobotArrival + returnRobotToKitchen chains of a task
    log,           \* io.emit per call/task, in emission order
    stops,         \* 'robots:emergency_stop' events emitted
    failures,      \* store failures injected so far
    focus,         \* the handler that is between two of its awaits, or <<>>
    preempts,      \* awaiting handlers overtaken so far
    hist,          \* history of call c and its task (read by no action)
    stoppedRobot,  \* history: robot stopped and not assigned since
    flagged,       \* history: what an operator's status write left on a robot
    pf             \* a RobotPathfinding instance, its arguments and results

vars == << robots, orders, layoutFound, call, task, ret, log, stops, failures,
           focus, preempts, hist, stoppedRobot, flagged, pf >>

RobotDoc(st, active, battery) ==
    [status |-> st, is_active |-> active, battery_level |-> battery,
     x |-> Kitchen.x, y |-> Kitchen.y, facing |-> "north",
     current_order_id |-> NoId, current_task |-> <<>>, current_path |-> <<>>,
     total_deliveries |-> 0]

OrderDoc(oid) ==
    [status |-> "ready", robot_id |-> NoId, table_number |-> TableOf(oid),
     completed_at |-> 0]

NullRobotDoc == RobotDoc("idle", FALSE, 0)

NullOrderDoc == [status |-> "none", robot_id |-> NoId, table_number |-> 0,
                 completed_at |-> 0]

\* document.save(): $set of the paths whose value differs from the value the
\* document was loaded (or last saved) with, by _id, with no other condition
SaveDoc(db, loaded, mem) ==
    [f \in DOMAIN db |-> IF mem[f] # loaded[f] THEN mem[f] ELSE db[f]]

\* one io.emit
Ev(type, robot, order, doc, idx, slot, path) ==
    [type |-> type, robot |-> robot, order |-> order,
     x |-> doc.x, y |-> doc.y, facing |-> doc.facing,
     idx |-> idx, slot |-> slot, path |-> path]

NewCall == [pc |-> "new", orderId |-> NoId, order |-> NullOrderDoc,
            robot |-> NoId, doc |-> NullRobotDoc, path |-> <<>>,
            result |-> "pending", why |-> ""]

\* history of a call: the documents its assign wrote; whether another call was
\* in progress while it ran; the number of eligible robots and whether its
\* order had a robot when it started; whether a robot was idle at its robot
\* query ("yes", "no", "" before the query); whether the robot document was
\* eligible when the call wrote it; Len(log[c]) when an emergency stop hit
\* its task (or -1); the documents its task wrote after that stop
NoHist == [wrote |-> {}, concurrent |-> FALSE, eligibleAtStart |-> 0,
           wasAssigned |-> FALSE, sawIdle |-> "", targetEligible |-> TRUE,
           cancelled |-> -1, lateWrites |-> {}]

NoTask == [pc |-> "none", robot |-> NoId, base |-> NullRobotDoc,
           mem |-> NullRobotDoc, path |-> <<>>, idx |-> 0, pending |-> 0]

NoRet == [pc |-> "none", base |-> NullRobotDoc, mem |-> NullRobotDoc,
          order |-> NullOrderDoc, oid |-> NoId, path |-> <<>>, idx |-> 0,
          pending |-> 0, finPending |-> 0]

\* no RobotPathfinding instance is under test
NoPf == [pc |-> "off", grid |-> <<>>, start |-> Pos(0, 0), end |-> Pos(0, 0),
         route |-> NotFound, smooth |-> <<>>, again |-> <<>>, trace |-> <<>>]

\* the fleet at provisioning: one with a robot that can serve (R3), and one
\* whose idle robots are inactive or at the battery threshold
Fleets ==
    { [R1 |-> RobotDoc("charging", TRUE, 80),
       R2 |-> RobotDoc("maintenance", TRUE, 80),
       R3 |-> RobotDoc("idle", TRUE, 80)],
      [R1 |-> RobotDoc("idle", FALSE, 80),
       R2 |-> RobotDoc("idle", TRUE, MinBattery),
       R3 |-> RobotDoc("charging", TRUE, 80)] }

Init ==
    /\ robots \in Fleets
    /\ orders = [o \in OrderIds |-> OrderDoc(o)]
    /\ layoutFound \in BOOLEAN
    /\ call = [c \in Calls |-> NewCall]
    /\ task = [c \in Calls |-> NoTask]
    /\ ret = [c \in Calls |-> [k \in Slots |-> NoRet]]
    /\ log = [c \in Calls |-> <<>>]
    /\ stops = 0
    /\ failures = 0
    /\ focus = <<>>
    /\ preempts = 0
    /\ hist = [c \in Calls |-> NoHist]
    /\ stoppedRobot = [r \in Robots |-> FALSE]
    /\ flagged = [r \in Robots |-> <<>>]
    /\ pf = NoPf

(***************************************************************************)
(* Scheduling: the event loop runs a handler up to its next await. A       *)
(* handler starts when no handler is between two awaits or when such a     *)
(* handler has been overtaken (Preempt).                                   *)
(***************************************************************************)

CanStart == focus = <<>>

CanContinue(h) == focus = <<>> \/ focus = h

\* an awaiting assignRobotToOrder call is overtaken (by another request, a
\* timer or an emergency stop)
PreemptCall ==
    /\ focus # <<>>
    /\ focus[1] = "call"
    /\ stops + preempts < MaxDisruptions
    /\ focus' = <<>>
    /\ preempts' = preempts + 1
    /\ UNCHANGED << pf, flagged, robots, orders, layoutFound, call, task, ret, log, stops,
                    failures, hist, stoppedRobot >>

\* an awaiting timer callback is overtaken (by the next firing of its timer,
\* by a request or by an emergency stop)
PreemptTimer ==
    /\ focus # <<>>
    /\ focus[1] # "call"
    /\ stops + preempts < MaxDisruptions
    /\ focus' = <<>>
    /\ preempts' = preempts + 1
    /\ UNCHANGED << pf, flagged, robots, orders, layoutFound, call, task, ret, log, stops,
                    failures, hist, stoppedRobot >>

(***************************************************************************)
(* RobotController.assignRobotToOrder                                      *)
(* Each action is one awaited repository operation together with the       *)
(* synchronous code that follows it up to the next await.                  *)
(***************************************************************************)

Return(c, value, why) ==
    [call[c] EXCEPT !.pc = "done", !.result = value, !.why = why,
                    !.order = NullOrderDoc, !.doc = NullRobotDoc]

\* the call is the focus until it returns
CallFocus(c) == focus' = IF call'[c].pc = "done" THEN <<>> ELSE << "call", c >>

\* a query that would also match a robot under way
EligibleOrNavigating(d) ==
    d.status \in {"idle", "navigating"} /\ d.is_active /\ d.battery_level > MinBattery

\* Robot.findOne({status: 'idle', is_active: true, battery_level: {$gt: 20}})
Eligible(d) == d.status = "idle" /\ d.is_active /\ d.battery_level > MinBattery

FindIdleRobot(rs) ==
    LET hits == {i \in 1..Len(RobotOrder) : Eligible(rs[RobotOrder[i]])}
    IN  IF hits = {} THEN NoId
        ELSE RobotOrder[CHOOSE i \in hits : \A j \in hits : i <= j]

\* getTablePosition: table?.location || { x: 0, y: 0 }
getTablePosition(tableNumber) ==
    IF tableNumber \in TableNumbers THEN TableLocation(tableNumber) ELSE Pos(0, 0)

\* findPath then smoothPath, for every pair of cells of the layout grid
Cells == {Pos(cx, cy) : cx \in 0..(GridWidth(LayoutGrid) - 1),
                        cy \in 0..(GridHeight(LayoutGrid) - 1)}

RouteTable ==
    [s \in Cells |-> [e \in Cells |->
        LET p == findPath(LayoutGrid, s, e)
        IN  IF p.found THEN Found(smoothPath(LayoutGrid, p.path)) ELSE NotFound]]

Route(s, e) == RouteTable[s][e]

\* await Order.findOne({ order_id: orderId }); if (!order) return false
AssignFindOrder(c, oid) ==
    /\ CanStart
    /\ call[c].pc = "new"
    /\ \A b \in Calls : b < c => call[b].pc # "new"
    /\ call' = [call EXCEPT ![c] =
          IF oid \in OrderIds
          THEN [@ EXCEPT !.pc = "findRobot", !.orderId = oid, !.order = orders[oid]]
          ELSE [Return(c, "false", "NoOrder") EXCEPT !.orderId = oid]]
    /\ hist' = [b \in Calls |->
          IF b = c
          THEN [hist[b] EXCEPT
                  !.concurrent = \E a \in Calls : call[a].pc \notin {"new", "done"},
                  !.eligibleAtStart = Cardinality({r \in Robots : Eligible(robots[r])}),
                  !.wasAssigned = oid \in OrderIds /\ orders[oid].robot_id # NoId]
          ELSE IF call[b].pc \notin {"new", "done"}
          THEN [hist[b] EXCEPT !.concurrent = TRUE]
          ELSE hist[b]]
    /\ CallFocus(c)
    /\ UNCHANGED << pf, flagged, robots, orders, layoutFound, task, ret, log, stops, failures,
                    preempts, stoppedRobot >>

\* an assign that goes on when no layout was loaded
AssignFindRobotWithoutLayout(c) ==
    /\ CanContinue(<< "call", c >>)
    /\ call[c].pc = "findRobot"
    /\ LET r == FindIdleRobot(robots)
       IN  call' = [call EXCEPT ![c] =
             IF r = NoId THEN Return(c, "false", "NoRobot")
             ELSE [@ EXCEPT !.pc = "tablePos", !.robot = r, !.doc = robots[r]]]
    /\ hist' = [hist EXCEPT ![c].sawIdle =
          IF \E q \in Robots : robots[q].status = "idle" THEN "yes" ELSE "no"]
    /\ CallFocus(c)
    /\ UNCHANGED << pf, flagged, robots, orders, layoutFound, task, ret, log, stops, failures,
                    preempts, stoppedRobot >>

\* await Robot.findOne(...); if (!robot) return false; then
\* this.layout.locations.kitchen, which throws into the catch when layout is null
AssignFindRobot(c) ==
    /\ CanContinue(<< "call", c >>)
    /\ call[c].pc = "findRobot"
    /\ LET r == FindIdleRobot(robots)
       IN  call' = [call EXCEPT ![c] =
             IF r = NoId THEN Return(c, "false", "NoRobot")
             ELSE IF ~layoutFound
               THEN [Return(c, "false", "NoLayout") EXCEPT !.robot = r]
             ELSE [@ EXCEPT !.pc = "tablePos", !.robot = r, !.doc = robots[r]]]
    /\ hist' = [hist EXCEPT ![c].sawIdle =
          IF \E q \in Robots : robots[q].status = "idle" THEN "yes" ELSE "no"]
    /\ CallFocus(c)
    /\ UNCHANGED << pf, flagged, robots, orders, layoutFound, task, ret, log, stops, failures,
                    preempts, stoppedRobot >>

\* an assign that would go on without a path
AssignTablePosUnchecked(c) ==
    /\ CanContinue(<< "call", c >>)
    /\ call[c].pc = "tablePos"
    /\ LET tablePos == getTablePosition(call[c].order.table_number)
           route == Route(Kitchen, tablePos)
       IN  call' = [call EXCEPT ![c] = [@ EXCEPT !.pc = "saveRobot", !.path = route.path]]
    /\ CallFocus(c)
    /\ UNCHANGED << pf, flagged, robots, orders, layoutFound, task, ret, log, stops, failures,
                    preempts, hist, stoppedRobot >>

\* await getTablePosition(order.table_number); findPath; if (!path) return false;
\* smoothPath; the robot's fields are set and robot.save() is issued
AssignTablePos(c) ==
    /\ CanContinue(<< "call", c >>)
    /\ call[c].pc = "tablePos"
    /\ LET tablePos == getTablePosition(call[c].order.table_number)
           route == Route(Kitchen, tablePos)
       IN  call' = [call EXCEPT ![c] =
             IF ~route.found THEN Return(c, "false", "NoPath")
             ELSE [@ EXCEPT !.pc = "saveRobot", !.path = route.path]]
    /\ CallFocus(c)
    /\ UNCHANGED << pf, flagged, robots, orders, layoutFound, task, ret, log, stops, failures,
                    preempts, hist, stoppedRobot >>

\* lines 821-829: the fields assignRobotToOrder sets on the loaded robot
AssignedRobot(c) ==
    [call[c].doc EXCEPT
        !.status = "navigating",
        !.current_order_id = call[c].orderId,
        !.current_task = << [from |-> Kitchen,
                             to |-> getTablePosition(call[c].order.table_number),
                             started_at |-> c] >>,
        !.current_path = call[c].path]

\* await robot.save(); then the order's fields are set and order.save() is issued
AssignSaveRobot(c) ==
    /\ CanContinue(<< "call", c >>)
    /\ call[c].pc = "saveRobot"
    /\ LET r == call[c].robot
       IN  /\ robots' = [robots EXCEPT ![r] = SaveDoc(@, call[c].doc, AssignedRobot(c))]
           /\ stoppedRobot' = [stoppedRobot EXCEPT ![r] = FALSE]
    /\ call' = [call EXCEPT ![c].pc = "saveOrder"]
    /\ hist' = [hist EXCEPT ![c].wrote = @ \cup {"robot"},
                            ![c].targetEligible = Eligible(robots[call[c].robot])]
    /\ CallFocus(c)
    /\ UNCHANGED << pf, flagged, orders, layoutFound, task, ret, log, stops, failures,
                    preempts >>

\* lines 834-835
AssignedOrder(c) ==
    [call[c].order EXCEPT !.robot_id = call[c].robot, !.status = "delivering"]

\* await order.save(); io.emit('robot:assigned'); simulateRobotMovement is
\* called (it runs up to its own first await); return true
AssignSaveOrder(c) ==
    /\ CanContinue(<< "call", c >>)
    /\ call[c].pc = "saveOrder"
    /\ orders' = [orders EXCEPT ![call[c].orderId] =
                     SaveDoc(@, call[c].order, AssignedOrder(c))]
    /\ log' = [log EXCEPT ![c] =
                 Append(@, Ev("assigned", call[c].robot, call[c].orderId,
                              NullRobotDoc, 0, 0, call[c].path))]
    /\ task' = [task EXCEPT ![c] = [NoTask EXCEPT !.pc = "load", !.robot = call[c].robot]]
    /\ call' = [call EXCEPT ![c] = Return(c, "true", "")]
    /\ hist' = [hist EXCEPT ![c].wrote = @ \cup {"order"}]
    /\ CallFocus(c)
    /\ UNCHANGED << pf, flagged, robots, layoutFound, ret, stops, failures, preempts,
                    stoppedRobot >>

\* a repository operation of the call rejects: catch (error) { return false }
AssignStoreFailure(c) ==
    /\ CanContinue(<< "call", c >>)
    /\ call[c].pc \in {"findRobot", "tablePos", "saveRobot", "saveOrder"}
    /\ failures < MaxFailures
    /\ failures' = failures + 1
    /\ call' = [call EXCEPT ![c] = Return(c, "false", "StoreFailure")]
    /\ CallFocus(c)
    /\ UNCHANGED << pf, flagged, robots, orders, layoutFound, task, ret, log, stops, preempts,
                    hist, stoppedRobot >>

(***************************************************************************)
(* RobotController.simulateRobotMovement: the outbound leg                 *)
(***************************************************************************)

calculateFacing(from, to) ==
    LET dx == to.x - from.x
        dy == to.y - from.y
    IN  IF Abs(dx) > Abs(dy)
        THEN (IF dx > 0 THEN "east" ELSE "west")
        ELSE (IF dy > 0 THEN "south" ELSE "north")

\* writes of a task that an emergency stop has hit
Late(c, what) ==
    [hist EXCEPT ![c].lateWrites = IF hist[c].cancelled >= 0 THEN @ \cup {what} ELSE @]

\* const robot = await Robot.findOne({ robot_id }); return if there is no path;
\* otherwise path and currentIndex are bound and setInterval is armed
TaskLoad(c) ==
    /\ CanStart
    /\ task[c].pc = "load"
    /\ LET d == robots[task[c].robot]
       IN  task' = [task EXCEPT ![c] =
             IF d.current_path = <<>>
             THEN [NoTask EXCEPT !.pc = "done", !.robot = task[c].robot]
             ELSE [@ EXCEPT !.pc = "running", !.base = d, !.mem = d,
                            !.path = d.current_path, !.idx = 0]]
    /\ UNCHANGED << pf, flagged, robots, orders, layoutFound, call, ret, log, stops, failures,
                    focus, preempts, hist, stoppedRobot >>

\* lines 874-882: robot.current_position = { nextPos, facing }
Moved(t) ==
    LET nextPos == t.path[t.idx + 1]
        from == IF t.idx > 0 THEN t.path[t.idx] ELSE Pos(t.mem.x, t.mem.y)
    IN  [t.mem EXCEPT !.x = nextPos.x, !.y = nextPos.y,
                      !.facing = calculateFacing(from, nextPos)]

\* moveInterval fires with currentIndex < path.length: the position is set on
\* the in-memory document and robot.save() is issued. While an earlier save of
\* the same document is still in flight the ODM either rejects the second
\* save (the callback ends there) or performs it.
TickFire(c, outcome) ==
    /\ CanStart
    /\ task[c].pc = "running"
    /\ task[c].idx < Len(task[c].path)
    /\ outcome = "rejected" => task[c].pending > 0
    /\ task' = [task EXCEPT ![c] =
          [@ EXCEPT !.mem = Moved(task[c]),
                    !.pending = IF outcome = "rejected" THEN @ ELSE @ + 1]]
    /\ focus' = IF outcome = "rejected" THEN <<>> ELSE << "tick", c >>
    /\ UNCHANGED << pf, flagged, robots, orders, layoutFound, call, ret, log, stops, failures,
                    preempts, hist, stoppedRobot >>

\* await robot.save() completes; io.emit('robot:position'); currentIndex++
TickSaved(c) ==
    /\ CanContinue(<< "tick", c >>)
    /\ task[c].pending > 0
    /\ LET t == task[c]
           r == t.robot
       IN  /\ robots' = [robots EXCEPT ![r] = SaveDoc(@, t.base, t.mem)]
           /\ log' = [log EXCEPT ![c] =
                        Append(@, Ev("position", r, NoId, t.mem, t.idx, 0, <<>>))]
           /\ task' = [task EXCEPT ![c] =
                        [@ EXCEPT !.base = t.mem, !.idx = @ + 1, !.pending = @ - 1]]
    /\ focus' = IF task'[c].pending > 0 THEN << "tick", c >> ELSE <<>>
    /\ hist' = Late(c, "robot")
    /\ UNCHANGED << pf, flagged, orders, layoutFound, call, ret, stops, failures, preempts,
                    stoppedRobot >>

(***************************************************************************)
(* RobotController.handleRobotArrival                                      *)
(***************************************************************************)

FreeSlot(c) ==
    LET free == {k \in Slots : ret[c][k].pc = "none"}
    IN  IF free = {} THEN 0 ELSE CHOOSE k \in free : \A j \in free : k <= j

\* moveInterval fires with currentIndex >= path.length: handleRobotArrival is
\* called and issues Robot.findOne
ArriveFire(c) ==
    /\ CanStart
    /\ task[c].pc = "running"
    /\ task[c].idx >= Len(task[c].path)
    /\ FreeSlot(c) # 0
    /\ ret' = [ret EXCEPT ![c][FreeSlot(c)] = [NoRet EXCEPT !.pc = "findRobot"]]
    /\ focus' = << "arrival", c, FreeSlot(c) >>
    /\ UNCHANGED << pf, flagged, robots, orders, layoutFound, call, task, log, stops,
                    failures, preempts, hist, stoppedRobot >>

\* handleRobotArrival returned: clearInterval(moveInterval)
Cleared(c) == [task EXCEPT ![c] = [@ EXCEPT !.pc = "cleared"]]

\* const robot = await Robot.findOne({ robot_id })
ArrFindRobot(c, k) ==
    /\ CanContinue(<< "arrival", c, k >>)
    /\ ret[c][k].pc = "findRobot"
    /\ ret' = [ret EXCEPT ![c][k] =
          [@ EXCEPT !.pc = "findOrder", !.base = robots[task[c].robot],
                    !.mem = robots[task[c].robot]]]
    /\ focus' = << "arrival", c, k >>
    /\ UNCHANGED << pf, flagged, robots, orders, layoutFound, call, task, log, stops,
                    failures, preempts, hist, stoppedRobot >>

\* const order = await Order.findOne({ order_id: robot.current_order_id });
\* if (!order) return; otherwise the order's fields are set and order.save() issued
ArrFindOrder(c, k) ==
    /\ CanContinue(<< "arrival", c, k >>)
    /\ ret[c][k].pc = "findOrder"
    /\ LET oid == ret[c][k].base.current_order_id
       IN  IF oid \in OrderIds
           THEN /\ ret' = [ret EXCEPT ![c][k] =
                     [@ EXCEPT !.pc = "saveOrder", !.oid = oid, !.order = orders[oid]]]
                /\ focus' = << "arrival", c, k >>
                /\ UNCHANGED task
           ELSE /\ ret' = [ret EXCEPT ![c][k] = [NoRet EXCEPT !.pc = "ended"]]
                /\ focus' = <<>>
                /\ task' = Cleared(c)
    /\ UNCHANGED << pf, flagged, robots, orders, layoutFound, call, log, stops, failures,
                    preempts, hist, stoppedRobot >>

\* lines 908-909; completed_at = new Date() is a fresh stamp
DeliveredOrder(c, k) ==
    [ret[c][k].order EXCEPT !.status = "delivered", !.completed_at = @ + 1]

\* this.pathfinder.findPath(robot.current_position, kitchen), smoothed
ReturnRoute(c, k) == Route(Pos(ret[c][k].base.x, ret[c][k].base.y), Kitchen)

\* lines 913-923: status, counter and (when found) the return path
ReturningRobot(c, k) ==
    [ret[c][k].base EXCEPT
        !.status = "returning",
        !.total_deliveries = @ + 1,
        !.current_path = IF ReturnRoute(c, k).found THEN ReturnRoute(c, k).path ELSE @]

\* await order.save(); the robot's fields are set; with a return path
\* robot.save() is issued, without one handleRobotArrival returns
ArrSaveOrder(c, k) ==
    /\ CanContinue(<< "arrival", c, k >>)
    /\ ret[c][k].pc = "saveOrder"
    /\ orders' = [orders EXCEPT ![ret[c][k].oid] =
                     SaveDoc(@, ret[c][k].order, DeliveredOrder(c, k))]
    /\ IF ReturnRoute(c, k).found
       THEN /\ ret' = [ret EXCEPT ![c][k] =
                 [@ EXCEPT !.pc = "saveRobot", !.mem = ReturningRobot(c, k),
                           !.order = NullOrderDoc]]
            /\ focus' = << "arrival", c, k >>
            /\ UNCHANGED task
       ELSE /\ ret' = [ret EXCEPT ![c][k] =
                 [NoRet EXCEPT !.pc = "ended", !.oid = ret[c][k].oid]]
            /\ focus' = <<>>
            /\ task' = Cleared(c)
    /\ hist' = Late(c, "order")
    /\ UNCHANGED << pf, flagged, robots, layoutFound, call, log, stops, failures, preempts,
                    stoppedRobot >>

\* await robot.save(); io.emit('order:delivered'); setTimeout(return, 2000);
\* handleRobotArrival returns and the interval is cleared
ArrSaveRobot(c, k) ==
    /\ CanContinue(<< "arrival", c, k >>)
    /\ ret[c][k].pc = "saveRobot"
    /\ LET r == task[c].robot
       IN  /\ robots' = [robots EXCEPT ![r] = SaveDoc(@, ret[c][k].base, ret[c][k].mem)]
           /\ log' = [log EXCEPT ![c] =
                        Append(@, Ev("delivered", r, ret[c][k].oid, NullRobotDoc, 0, k, <<>>))]
    /\ ret' = [ret EXCEPT ![c][k] =
                 [NoRet EXCEPT !.pc = "timeout", !.oid = ret[c][k].oid]]
    /\ task' = Cleared(c)
    /\ focus' = <<>>
    /\ hist' = Late(c, "robot")
    /\ UNCHANGED << pf, flagged, orders, layoutFound, call, stops, failures, preempts,
                    stoppedRobot >>

(***************************************************************************)
(* RobotController.returnRobotToKitchen: the return leg                    *)
(***************************************************************************)

\* the 2000 ms timeout fires; const robot = await Robot.findOne({ robot_id });
\* path = robot.current_path; setInterval is armed
RetLoad(c, k) ==
    /\ CanStart
    /\ ret[c][k].pc = "timeout"
    /\ LET d == robots[task[c].robot]
       IN  ret' = [ret EXCEPT ![c][k] =
             [@ EXCEPT !.pc = "running", !.base = d, !.mem = d,
                       !.path = d.current_path, !.idx = 0]]
    /\ UNCHANGED << pf, flagged, robots, orders, layoutFound, call, task, log, stops,
                    failures, focus, preempts, hist, stoppedRobot >>

\* lines 967-971: the position is set, the facing is kept
MovedBack(q) ==
    [q.mem EXCEPT !.x = q.path[q.idx + 1].x, !.y = q.path[q.idx + 1].y]

\* a save of the return leg's document is in flight
ReturnSaving(c, k) == ret[c][k].pending + ret[c][k].finPending > 0

\* returnInterval fires with currentIndex < path.length
RetTickFire(c, k, outcome) ==
    /\ CanStart
    /\ ret[c][k].pc = "running"
    /\ ret[c][k].idx < Len(ret[c][k].path)
    /\ outcome = "rejected" => ReturnSaving(c, k)
    /\ ret' = [ret EXCEPT ![c][k] =
          [@ EXCEPT !.mem = MovedBack(ret[c][k]),
                    !.pending = IF outcome = "rejected" THEN @ ELSE @ + 1]]
    /\ focus' = IF outcome = "rejected" THEN <<>> ELSE << "return", c, k >>
    /\ UNCHANGED << pf, flagged, robots, orders, layoutFound, call, task, log, stops,
                    failures, preempts, hist, stoppedRobot >>

\* await robot.save() completes; io.emit('robot:position'); currentIndex++
RetTickSaved(c, k) ==
    /\ CanContinue(<< "return", c, k >>)
    /\ ret[c][k].pending > 0
    /\ LET q == ret[c][k]
           r == task[c].robot
       IN  /\ robots' = [robots EXCEPT ![r] = SaveDoc(@, q.base, q.mem)]
           /\ log' = [log EXCEPT ![c] =
                        Append(@, Ev("position", r, NoId, q.mem, q.idx, k, <<>>))]
           /\ ret' = [ret EXCEPT ![c][k] =
                        [@ EXCEPT !.base = q.mem, !.idx = @ + 1, !.pending = @ - 1]]
    /\ focus' = IF ReturnSaving(c, k)' THEN << "return", c, k >> ELSE <<>>
    /\ hist' = Late(c, "robot")
    /\ UNCHANGED << pf, flagged, orders, layoutFound, call, task, stops, failures, preempts,
                    stoppedRobot >>

\* lines 955-959: back at the kitchen; the kitchen location carries no facing
IdleRobot(d) ==
    [d EXCEPT !.status = "idle", !.current_order_id = NoId, !.current_task = <<>>,
              !.current_path = <<>>, !.x = Kitchen.x, !.y = Kitchen.y,
              !.facing = "none"]

\* returnInterval fires with currentIndex >= path.length
RetFinalFire(c, k, outcome) ==
    /\ CanStart
    /\ ret[c][k].pc = "running"
    /\ ret[c][k].idx >= Len(ret[c][k].path)
    /\ outcome = "rejected" => ReturnSaving(c, k)
    /\ ret' = [ret EXCEPT ![c][k] =
          [@ EXCEPT !.mem = IdleRobot(ret[c][k].mem),
                    !.finPending = IF outcome = "rejected" THEN @ ELSE @ + 1]]
    /\ focus' = IF outcome = "rejected" THEN <<>> ELSE << "return", c, k >>
    /\ UNCHANGED << pf, flagged, robots, orders, layoutFound, call, task, log, stops,
                    failures, preempts, hist, stoppedRobot >>

\* await robot.save() completes; io.emit('robot:idle'); clearInterval
RetFinalSaved(c, k) ==
    /\ CanContinue(<< "return", c, k >>)
    /\ ret[c][k].finPending > 0
    /\ LET q == ret[c][k]
           r == task[c].robot
       IN  /\ robots' = [robots EXCEPT ![r] = SaveDoc(@, q.base, q.mem)]
           /\ log' = [log EXCEPT ![c] =
                        Append(@, Ev("idle", r, NoId, NullRobotDoc, 0, k, <<>>))]
           /\ ret' = [ret EXCEPT ![c][k] =
                        [@ EXCEPT !.pc = "cleared", !.base = q.mem,
                                  !.finPending = @ - 1]]
    /\ focus' = IF ReturnSaving(c, k)' THEN << "return", c, k >> ELSE <<>>
    /\ hist' = Late(c, "robot")
    /\ UNCHANGED << pf, flagged, orders, layoutFound, call, task, stops, failures, preempts,
                    stoppedRobot >>

(***************************************************************************)
(* RobotController.emergencyStopAll                                        *)
(***************************************************************************)

\* a filter that would also match robots that are charging
StopFilterWithCharging == {"navigating", "delivering", "charging"}

\* { status: { $in: ['navigating', 'delivering'] } }
StopFilter == {"navigating", "delivering"}

\* Robot.updateMany(filter, { status: 'idle', current_path: [] });
\* io.emit('robots:emergency_stop')
EmergencyStopAll ==
    /\ CanStart
    /\ stops + preempts < MaxDisruptions
    /\ stops' = stops + 1
    /\ robots' = [r \in Robots |->
          IF robots[r].status \in StopFilter
          THEN [robots[r] EXCEPT !.status = "idle", !.current_path = <<>>]
          ELSE robots[r]]
    /\ stoppedRobot' = [r \in Robots |->
          stoppedRobot[r] \/ robots[r].status \in StopFilter]
    /\ hist' = [c \in Calls |->
          IF /\ hist[c].cancelled = -1
             /\ task[c].pc \in {"load", "running"}
             /\ robots[task[c].robot].status \in StopFilter
          THEN [hist[c] EXCEPT !.cancelled = Len(log[c])] ELSE hist[c]]
    /\ UNCHANGED << pf, flagged, orders, layoutFound, call, task, ret, log, failures, focus,
                    preempts >>

SaveOutcomes == {"performed", "rejected"}

Next ==
    \/ PreemptCall
    \/ \E c \in Calls, oid \in CallArgs : AssignFindOrder(c, oid)
    \/ \E c \in Calls : AssignFindRobot(c)
    \/ \E c \in Calls : AssignTablePos(c)
    \/ \E c \in Calls : AssignSaveRobot(c)
    \/ \E c \in Calls : AssignSaveOrder(c)
    \/ \E c \in Calls : AssignStoreFailure(c)
    \/ \E c \in Calls : TaskLoad(c)
    \/ \E c \in Calls, o \in SaveOutcomes : TickFire(c, o)
    \/ \E c \in Calls : TickSaved(c)
    \/ \E c \in Calls : ArriveFire(c)
    \/ \E c \in Calls, k \in Slots : ArrFindRobot(c, k)
    \/ \E c \in Calls, k \in Slots : ArrFindOrder(c, k)
    \/ \E c \in Calls, k \in Slots : ArrSaveOrder(c, k)
    \/ \E c \in Calls, k \in Slots : ArrSaveRobot(c, k)
    \/ \E c \in Calls, k \in Slots : RetLoad(c, k)
    \/ \E c \in Calls, k \in Slots, o \in SaveOutcomes : RetTickFire(c, k, o)
    \/ \E c \in Calls, k \in Slots : RetTickSaved(c, k)
    \/ \E c \in Calls, k \in Slots, o \in SaveOutcomes : RetFinalFire(c, k, o)
    \/ \E c \in Calls, k \in Slots : RetFinalSaved(c, k)
    \/ EmergencyStopAll

Spec == Init /\ [][Next]_vars

(***************************************************************************)
(* One request, with timer callbacks that can be overtaken by the next     *)
(* firing of their timer                                                   *)
(***************************************************************************)
TimerNext ==
    \/ PreemptTimer
    \/ \E oid \in CallArgs : AssignFindOrder(1, oid)
    \/ AssignFindRobot(1)
    \/ AssignTablePos(1)
    \/ AssignSaveRobot(1)
    \/ AssignSaveOrder(1)
    \/ AssignStoreFailure(1)
    \/ TaskLoad(1)
    \/ \E o \in SaveOutcomes : TickFire(1, o)
    \/ TickSaved(1)
    \/ ArriveFire(1)
    \/ \E k \in Slots : ArrFindRobot(1, k)
    \/ \E k \in Slots : ArrFindOrder(1, k)
    \/ \E k \in Slots : ArrSaveOrder(1, k)
    \/ \E k \in Slots : ArrSaveRobot(1, k)
    \/ \E k \in Slots : RetLoad(1, k)
    \/ \E k \in Slots, o \in SaveOutcomes : RetTickFire(1, k, o)
    \/ \E k \in Slots : RetTickSaved(1, k)
    \/ \E k \in Slots, o \in SaveOutcomes : RetFinalFire(1, k, o)
    \/ \E k \in Slots : RetFinalSaved(1, k)
    \/ EmergencyStopAll

TimerSpec == Init /\ [][TimerNext]_vars

(***************************************************************************)
(* One request, and an operator who writes a robot's status in the store   *)
(* between two handlers (the manual maintenance flag)                      *)
(***************************************************************************)

OperatorStatuses == {"maintenance", "charging"}

\* Robot.updateOne({ robot_id: r }, { status: st }) from outside the
\* controller, on a robot that is under way
OperatorFlag(r, st) ==
    /\ CanStart
    /\ flagged[r] = <<>>
    /\ robots[r].status \in {"navigating", "returning"}
    /\ robots' = [robots EXCEPT ![r].status = st]
    /\ flagged' = [flagged EXCEPT ![r] =
                     << [status |-> st, x |-> robots[r].x, y |-> robots[r].y] >>]
    /\ UNCHANGED << pf, orders, layoutFound, call, task, ret, log, stops, failures,
                    focus, preempts, hist, stoppedRobot >>

OperatorNext ==
    \/ \E oid \in CallArgs : AssignFindOrder(1, oid)
    \/ AssignFindRobot(1)
    \/ AssignTablePos(1)
    \/ AssignSaveRobot(1)
    \/ AssignSaveOrder(1)
    \/ TaskLoad(1)
    \/ TickFire(1, "performed")
    \/ TickSaved(1)
    \/ ArriveFire(1)
    \/ \E k \in Slots : ArrFindRobot(1, k)
    \/ \E k \in Slots : ArrFindOrder(1, k)
    \/ \E k \in Slots : ArrSaveOrder(1, k)
    \/ \E k \in Slots : ArrSaveRobot(1, k)
    \/ \E k \in Slots : RetLoad(1, k)
    \/ \E k \in Slots : RetTickFire(1, k, "performed")
    \/ \E k \in Slots : RetTickSaved(1, k)
    \/ \E k \in Slots : RetFinalFire(1, k, "performed")
    \/ \E k \in Slots : RetFinalSaved(1, k)
    \/ \E r \in Robots, st \in OperatorStatuses : OperatorFlag(r, st)

OperatorSpec == Init /\ [][OperatorNext]_vars

(***************************************************************************)
(* One request, and a writer of the robot collection outside the           *)
(* controller that sets the stored position of a robot under way           *)
(***************************************************************************)

\* Robot.updateOne({ robot_id: r }, { current_position: p }) from outside the
\* controller; handleRobotArrival reads the position from the store
Displace(r, p) ==
    /\ CanStart
    /\ flagged[r] = <<>>
    /\ robots[r].status = "navigating"
    /\ robots' = [robots EXCEPT ![r].x = p.x, ![r].y = p.y]
    /\ flagged' = [flagged EXCEPT ![r] =
                     << [status |-> robots[r].status, x |-> p.x, y |-> p.y] >>]
    /\ UNCHANGED << pf, orders, layoutFound, call, task, ret, log, stops, failures,
                    focus, preempts, hist, stoppedRobot >>

DisplaceNext ==
    \/ \E oid \in CallArgs : AssignFindOrder(1, oid)
    \/ AssignFindRobot(1)
    \/ AssignTablePos(1)
    \/ AssignSaveRobot(1)
    \/ AssignSaveOrder(1)
    \/ TaskLoad(1)
    \/ TickFire(1, "performed")
    \/ TickSaved(1)
    \/ ArriveFire(1)
    \/ \E k \in Slots : ArrFindRobot(1, k)
    \/ \E k \in Slots : ArrFindOrder(1, k)
    \/ \E k \in Slots : ArrSaveOrder(1, k)
    \/ \E k \in Slots : ArrSaveRobot(1, k)
    \/ \E k \in Slots : RetLoad(1, k)
    \/ \E k \in Slots : RetTickFire(1, k, "performed")
    \/ \E k \in Slots : RetTickSaved(1, k)
    \/ \E k \in Slots : RetFinalFire(1, k, "performed")
    \/ \E k \in Slots : RetFinalSaved(1, k)
    \/ \E r \in Robots, p \in Cells : Displace(r, p)

DisplaceSpec == Init /\ [][DisplaceNext]_vars

(***************************************************************************)
(* Requests and timers with no emergency stop and no store failure; every  *)
(* handler that can run eventually runs                                    *)
(***************************************************************************)
LiveNext ==
    \/ PreemptCall
    \/ \E c \in Calls, oid \in CallArgs : AssignFindOrder(c, oid)
    \/ \E c \in Calls : AssignFindRobot(c)
    \/ \E c \in Calls : AssignTablePos(c)
    \/ \E c \in Calls : AssignSaveRobot(c)
    \/ \E c \in Calls : AssignSaveOrder(c)
    \/ \E c \in Calls : TaskLoad(c)
    \/ \E c \in Calls : TickFire(c, "performed")
    \/ \E c \in Calls : TickSaved(c)
    \/ \E c \in Calls : ArriveFire(c)
    \/ \E c \in Calls, k \in Slots : ArrFindRobot(c, k)
    \/ \E c \in Calls, k \in Slots : ArrFindOrder(c, k)
    \/ \E c \in Calls, k \in Slots : ArrSaveOrder(c, k)
    \/ \E c \in Calls, k \in Slots : ArrSaveRobot(c, k)
    \/ \E c \in Calls, k \in Slots : RetLoad(c, k)
    \/ \E c \in Calls, k \in Slots : RetTickFire(c, k, "performed")
    \/ \E c \in Calls, k \in Slots : RetTickSaved(c, k)
    \/ \E c \in Calls, k \in Slots : RetFinalFire(c, k, "performed")
    \/ \E c \in Calls, k \in Slots : RetFinalSaved(c, k)

LiveSpec == Init /\ [][LiveNext]_vars /\ WF_vars(LiveNext)

(***************************************************************************)
(* RobotPathfinding on its own: new RobotPathfinding(grid), then           *)
(* findPath(start, end), then smoothPath of the route found                *)
(***************************************************************************)

\* the side of the square grids under test
SquareSide == 3

\* the width and height of the oblong grids under test
WideWidth == 4

WideHeight == 2

\* every matrix of the given size over the codes 0 (empty) and 1 (obstacle)
BinaryGrids(w, h) == [1..h -> [1..w -> {0, 1}]]

\* the side of the square grid without obstacles
OpenGridSide == 5

OpenGrid == [cy \in 1..OpenGridSide |-> [cx \in 1..OpenGridSide |-> 0]]

PathGrids ==
    BinaryGrids(SquareSide, SquareSide) \cup BinaryGrids(WideWidth, WideHeight)
        \cup {OpenGrid}

\* the arguments tried on a grid: every cell, and one position beyond each edge
Endpoints(grid) ==
    {Pos(cx, cy) : cx \in 0..(GridWidth(grid) - 1), cy \in 0..(GridHeight(grid) - 1)}
        \cup {Pos(-1, 0), Pos(0, -1), Pos(GridWidth(grid), 0), Pos(0, GridHeight(grid))}

\* no controller is running
ControllerOff ==
    /\ robots = [r \in Robots |-> NullRobotDoc]
    /\ orders = [o \in OrderIds |-> OrderDoc(o)]
    /\ layoutFound = FALSE
    /\ call = [c \in Calls |-> NewCall]
    /\ task = [c \in Calls |-> NoTask]
    /\ ret = [c \in Calls |-> [k \in Slots |-> NoRet]]
    /\ log = [c \in Calls |-> <<>>]
    /\ stops = 0
    /\ failures = 0
    /\ focus = <<>>
    /\ preempts = 0
    /\ hist = [c \in Calls |-> NoHist]
    /\ stoppedRobot = [r \in Robots |-> FALSE]
    /\ flagged = [r \in Robots |-> <<>>]

\* a RobotPathfinding has been constructed from a grid under test
PathInit ==
    /\ ControllerOff
    /\ \E grid \in PathGrids : \E start \in Endpoints(grid) : \E end \in Endpoints(grid) :
          pf = [NoPf EXCEPT !.pc = "new", !.grid = grid, !.start = start, !.end = end]

\* findPath(start, end)
PathFind ==
    /\ pf.pc = "new"
    /\ pf' = [pf EXCEPT !.pc = "searched",
                        !.route = findPath(pf.grid, pf.start, pf.end),
                        !.trace = findPathTrace(pf.grid, pf.start, pf.end)]
    /\ UNCHANGED << robots, orders, layoutFound, call, task, ret, log, stops,
                    failures, focus, preempts, hist, stoppedRobot, flagged >>

\* smoothPath(path) of the route findPath returned
PathSmooth ==
    /\ pf.pc = "searched"
    /\ pf.route.found
    /\ pf' = [pf EXCEPT !.pc = "smoothed",
                        !.smooth = smoothPath(pf.grid, pf.route.path)]
    /\ UNCHANGED << robots, orders, layoutFound, call, task, ret, log, stops,
                    failures, focus, preempts, hist, stoppedRobot, flagged >>

\* smoothPath applied to the route smoothPath returned
PathSmoothAgain ==
    /\ pf.pc = "smoothed"
    /\ pf' = [pf EXCEPT !.pc = "resmoothed",
                        !.again = smoothPath(pf.grid, pf.smooth)]
    /\ UNCHANGED << robots, orders, layoutFound, call, task, ret, log, stops,
                    failures, focus, preempts, hist, stoppedRobot, flagged >>

PathNext == PathFind \/ PathSmooth \/ PathSmoothAgain

PathSpec == PathInit /\ [][PathNext]_vars

(***************************************************************************)
(* new RobotPathfinding(grid) for any matrix, rectangular or not           *)
(***************************************************************************)

\* the largest number of rows and the longest row of the matrices under test
MaxRows == 2

MaxRowLength == 2

RawRows == UNION {[1..n -> {0, 1}] : n \in 0..MaxRowLength}

RawGrids == UNION {[1..h -> RawRows] : h \in 0..MaxRows}

RawEndpoints == {Pos(cx, cy) : cx \in 0..(MaxRowLength - 1), cy \in 0..(MaxRows - 1)}

ConstructInit ==
    /\ ControllerOff
    /\ \E grid \in RawGrids : \E start \in RawEndpoints : \E end \in RawEndpoints :
          pf = [NoPf EXCEPT !.pc = "raw", !.grid = grid, !.start = start, !.end = end]

\* the constructor: this.height = grid.length; this.width = grid[0].length,
\* which throws a TypeError when grid[0] is undefined
PathConstruct ==
    /\ pf.pc = "raw"
    /\ pf' = [pf EXCEPT !.pc = IF Len(pf.grid) = 0 THEN "threw" ELSE "new"]
    /\ UNCHANGED << robots, orders, layoutFound, call, task, ret, log, stops,
                    failures, focus, preempts, hist, stoppedRobot, flagged >>

ConstructNext == PathConstruct \/ PathFind \/ PathSmooth \/ PathSmoothAgain

ConstructSpec == ConstructInit /\ [][ConstructNext]_vars

(***************************************************************************)
(* A RobotPathfinding on layout grids that use all four cell codes of      *)
(* restaurantLayoutSchema.grid: 0 = empty, 1 = obstacle, 2 = kitchen,      *)
(* 3 = table                                                               *)
(***************************************************************************)

\* the width and height of the coded grids under test
CodedWidth == 3

CodedHeight == 2

CellCodes == {0, 1, 2, 3}

CodedGrids == [1..CodedHeight -> [1..CodedWidth -> CellCodes]]

\* a RobotPathfinding has been constructed from a coded layout grid
CodedInit ==
    /\ ControllerOff
    /\ \E grid \in CodedGrids : \E start \in Endpoints(grid) : \E end \in Endpoints(grid) :
          pf = [NoPf EXCEPT !.pc = "new", !.grid = grid, !.start = start, !.end = end]

CodedNext == PathFind \/ PathSmooth \/ PathSmoothAgain

CodedSpec == CodedInit /\ [][CodedNext]_vars

(***************************************************************************)
(* Properties                                                              *)
(***************************************************************************)

\* the call has returned
Done(c) == call[c].pc = "done"

\* the order of the call exists and has a route from the kitchen
Routable(c) ==
    /\ call[c].orderId \in OrderIds
    /\ Route(Kitchen, getTablePosition(TableOf(call[c].orderId))).found

\* C1: two assign calls for two different ready orders that overlap, with
\* exactly one eligible robot when each starts (layout loaded, both tables
\* reachable, no store failure): exactly one returns true, the other returns
\* false for want of a robot, and the robot is not awarded to both orders.
C1_ExactlyOneAward ==
    \A a, b \in Calls :
        ( /\ a # b
          /\ Done(a) /\ Done(b)
          /\ hist[a].concurrent /\ hist[b].concurrent
          /\ hist[a].eligibleAtStart = 1 /\ hist[b].eligibleAtStart = 1
          /\ ~hist[a].wasAssigned /\ ~hist[b].wasAssigned
          /\ call[a].orderId # call[b].orderId
          /\ Routable(a) /\ Routable(b)
          /\ layoutFound
          /\ call[a].why # "StoreFailure" /\ call[b].why # "StoreFailure" )
        => /\ call[a].result = "true" => /\ call[b].result = "false"
                                         /\ call[b].why = "NoRobot"
           /\ call[a].result = "true" \/ call[b].result = "true"

\* the number of position events of the outbound leg among the first n
\* events of call c
OutboundEvents(c, n) ==
    Cardinality({i \in 1..n : log[c][i].type = "position" /\ log[c][i].slot = 0})

\* an emergency stop hit the task of call c part-way along its route
StoppedMidRoute(c) ==
    /\ hist[c].cancelled >= 0
    /\ OutboundEvents(c, hist[c].cancelled) >= 1
    /\ OutboundEvents(c, hist[c].cancelled) < Len(call[c].path)

\* C2: after emergencyStopAll has hit a robot that was navigating part-way
\* along its route, and until the robot is next assigned, the stored robot is
\* idle with an empty route, and no position event follows the stop for the
\* cancelled task.
C2_StopHolds ==
    /\ \A r \in Robots :
          stoppedRobot[r] =>
              robots[r].status = "idle" /\ robots[r].current_path = <<>>
    /\ \A c \in Calls :
          StoppedMidRoute(c) =>
              \A i \in (hist[c].cancelled + 1)..Len(log[c]) :
                  log[c][i].type # "position"

\* C3: once emergencyStopAll has stopped a robot, the timer of the cancelled
\* task writes neither the robot document nor the order document, runs no
\* arrival handling and starts no return trip.
C3_LateTicksAreNoOps ==
    \A c \in Calls :
        hist[c].cancelled >= 0 =>
            /\ hist[c].lateWrites = {}
            /\ \A k \in Slots : ret[c][k].pc = "none"

\* C4: a returned assign call has written both the robot and the order, and
\* then returned true, or has written neither, whatever made it fail.
C4_NoHalfUpdate ==
    \A c \in Calls :
        Done(c) =>
            /\ hist[c].wrote \in {{}, {"robot", "order"}}
            /\ call[c].result = "true" <=> hist[c].wrote = {"robot", "order"}

\* C5: an assign call for an order that already had a robot in its
\* assignment slot returns false and writes no robot and no order, and no
\* order is the current order of two robots.
C5_NoSecondAward ==
    /\ \A c \in Calls :
          Done(c) /\ hist[c].wasAssigned =>
              call[c].result = "false" /\ hist[c].wrote = {}
    /\ \A o \in OrderIds :
          Cardinality({r \in Robots : robots[r].current_order_id = o}) <= 1

\* C6: the robot document an assign call writes is, in the store and at the
\* moment of the write, idle, active and above the battery threshold.
C6_WritesEligibleOnly ==
    \A c \in Calls : "robot" \in hist[c].wrote => hist[c].targetEligible

\* the call queried the fleet and no robot was idle
SawNoIdleRobot(c) == Done(c) /\ hist[c].sawIdle = "no"

\* C7: an assign call whose robot query ran on a fleet with no idle robot
\* returns false for want of a robot, has written no robot and no order, has
\* emitted no event and has started no movement task.
C7_NoIdleRobotNoEffect ==
    \A c \in Calls :
        SawNoIdleRobot(c) =>
            /\ call[c].result = "false"
            /\ call[c].why = "NoRobot"
            /\ hist[c].wrote = {}
            /\ log[c] = <<>>
            /\ task[c].pc = "none"

\* C7 happens: a call has returned after finding no idle robot
C7_Witness == \E c \in Calls : SawNoIdleRobot(c) /\ call[c].orderId \in OrderIds

\* the call selected a robot, the layout is loaded, the table lookup did not
\* fail, and there is no route from the kitchen to the order's table
SearchedNoRoute(c) ==
    /\ Done(c)
    /\ call[c].orderId \in OrderIds
    /\ call[c].robot # NoId
    /\ layoutFound
    /\ call[c].why # "StoreFailure"
    /\ ~Routable(c)

Home(c) ==
    /\ call[c].robot \in Robots
    /\ call[c].orderId \in OrderIds
    /\ LET d == robots[call[c].robot]
       IN  /\ d.status = "idle"
           /\ d.x = Kitchen.x /\ d.y = Kitchen.y
           /\ d.current_order_id = NoId
           /\ d.current_path = <<>>
    /\ orders[call[c].orderId].status = "delivered"

\* arrival handling of call c's task has started only after one position
\* event for each waypoint of the outbound route
ArrivalAfterRoute ==
    \A c \in Calls :
        (\E k \in Slots : ret[c][k].pc # "none") =>
            OutboundEvents(c, Len(log[c])) >= Len(call[c].path)

\* C9: with no emergency stop, no store failure and every enabled handler
\* eventually run, an assign call that returned true is followed by a state
\* where its robot is idle at the kitchen with no order and no route and its
\* order is delivered; and arrival handling starts only after as many
\* position events as the outbound route has waypoints.
C9_Lifecycle ==
    /\ []ArrivalAfterRoute
    /\ \A c \in Calls : (call[c].result = "true") ~> Home(c)

IsOutboundPosition(e) == e.type = "position" /\ e.slot = 0

IsReturnPosition(e) == e.type = "position" /\ e.slot > 0

\* the events report the waypoints of the path in order, one event each
OnePerWaypoint(evs, path) ==
    /\ Len(evs) <= Len(path)
    /\ \A i \in 1..Len(evs) :
          /\ evs[i].idx = i - 1
          /\ evs[i].x = path[i].x
          /\ evs[i].y = path[i].y

\* C10: on each leg of a task the position events report the waypoints of
\* the leg's path in increasing order, one event per waypoint, none
\* repeated, reordered or skipped, however timer firings interleave with
\* the save of the previous firing.
C10_OneEventPerWaypoint ==
    \A c \in Calls :
        LET out == SelectSeq(log[c], IsOutboundPosition)
            back == SelectSeq(log[c], IsReturnPosition)
        IN  /\ OnePerWaypoint(out, task[c].path)
            /\ back # <<>> => OnePerWaypoint(back, ret[c][back[1].slot].path)

\* the step is a run of emergencyStopAll
StopStep == stops' = stops + 1

\* C11: emergencyStopAll sets to idle, with an empty route, every robot
\* whose status is navigating or returning when it runs.
C11_StopsEveryMidTask ==
    [][StopStep =>
          \A r \in Robots :
              robots[r].status \in {"navigating", "returning"} =>
                  /\ robots'[r].status = "idle"
                  /\ robots'[r].current_path = <<>>]_vars

\* C12: emergencyStopAll leaves every robot that is idle, charging or in
\* maintenance as it is, field by field, and changes no order.
C12_StopLeavesOthers ==
    [][StopStep =>
          /\ \A r \in Robots :
                robots[r].status \in {"idle", "charging", "maintenance"} =>
                    robots'[r] = robots[r]
          /\ orders' = orders]_vars

\* C12 happens: emergencyStopAll has run on a fleet in which it stopped a
\* robot and in which other robots were charging and in maintenance
C12_Witness ==
    /\ stops > 0
    /\ \E r \in Robots : stoppedRobot[r]
    /\ \E r \in Robots : robots[r].status = "charging"
    /\ \E r \in Robots : robots[r].status = "maintenance"

\* C13: once an operator has set a robot that is under way to maintenance
\* or charging, no tick, arrival handling or return completion of the
\* robot's task changes that status or the robot's position.
C13_OperatorStatusRespected ==
    \A r \in Robots :
        flagged[r] # <<>> =>
            /\ robots[r].status = flagged[r][1].status
            /\ robots[r].x = flagged[r][1].x
            /\ robots[r].y = flagged[r][1].y

\* the changes of a robot's stored status along the lifecycle
LifecycleMoves ==
    { << "idle", "navigating" >>, << "navigating", "returning" >>,
      << "returning", "idle" >>, << "navigating", "idle" >> }

\* C14: a robot's stored status changes only from idle to navigating, from
\* navigating to returning, from returning to idle, or from mid-task to idle;
\* never from idle to returning, never out of charging or maintenance.
C14_StatusLifecycle ==
    [][\A r \in Robots :
          robots'[r].status # robots[r].status =>
              << robots[r].status, robots'[r].status >> \in LifecycleMoves]_vars

(***************************************************************************)
(* The grid as a graph, read from the matrix alone                         *)
(***************************************************************************)

\* the in-bounds cells holding code 0
OpenCells(grid) ==
    {p \in [x : 0..(Len(grid[1]) - 1), y : 0..(Len(grid) - 1)] :
       grid[p.y + 1][p.x + 1] = 0}

\* one step up, down, left or right
Orthogonal(p, q) ==
    \/ p.x = q.x /\ Abs(p.y - q.y) = 1
    \/ p.y = q.y /\ Abs(p.x - q.x) = 1

\* breadth-first search: the number of steps to goal, or -1 when it is cut off
RECURSIVE BfsDistance(_, _, _, _, _)
BfsDistance(open, frontier, seen, goal, d) ==
    IF goal \in frontier THEN d
    ELSE IF frontier = {} THEN -1
    ELSE LET next == {q \in open \ seen : \E p \in frontier : Orthogonal(p, q)}
         IN  BfsDistance(open, next, seen \cup next, goal, d + 1)

ShortestDistance(grid, a, b) ==
    IF a \in OpenCells(grid) /\ b \in OpenCells(grid)
    THEN BfsDistance(OpenCells(grid), {a}, {a}, b, 0)
    ELSE -1

Searched == pf.pc \in {"searched", "smoothed", "resmoothed"}

\* C15: for connected in-bounds walkable start and goal, the route findPath
\* returns has exactly as many steps (length minus one) as the breadth-first
\* shortest distance between them
C15_RouteIsShortest ==
    (Searched /\ ShortestDistance(pf.grid, pf.start, pf.end) >= 0)
        => /\ pf.route.found
           /\ Len(pf.route.path) - 1 = ShortestDistance(pf.grid, pf.start, pf.end)

\* a route that had to go round an obstacle
C15_Witness ==
    /\ Searched
    /\ pf.route.found
    /\ ShortestDistance(pf.grid, pf.start, pf.end) = Len(pf.route.path) - 1
    /\ Len(pf.route.path) - 1 > Abs(pf.start.x - pf.end.x) + Abs(pf.start.y - pf.end.y)

C17_BadEndpointNotFound ==
    (Searched /\ (pf.start \notin OpenCells(pf.grid) \/ pf.end \notin OpenCells(pf.grid)))
        => pf.route = NotFound

\* a walkable start with a goal beyond the bottom edge
C17_Witness ==
    /\ Searched
    /\ pf.start \in OpenCells(pf.grid)
    /\ pf.end = Pos(0, Len(pf.grid))
    /\ pf.route = NotFound

\* the walkable rows of column cx
ColumnGaps(grid, cx) == {cy \in 0..(Len(grid) - 1) : grid[cy + 1][cx + 1] = 0}

\* column cx lies strictly between the two positions
Between(cx, a, b) == (a.x < cx /\ cx < b.x) \/ (b.x < cx /\ cx < a.x)

RouteCells == {pf.route.path[i] : i \in 1..Len(pf.route.path)}

\* C18: for in-bounds walkable start and goal, findPath returns NOT_FOUND
\* exactly when no path of orthogonal steps over walkable cells joins them; a
\* full-height obstacle column between them gives NOT_FOUND, and when that
\* column has a single gap cell the returned route passes through the gap
C18_NotFoundIffCutOff ==
    (Searched /\ pf.start \in OpenCells(pf.grid) /\ pf.end \in OpenCells(pf.grid)) =>
        /\ ~pf.route.found <=> ShortestDistance(pf.grid, pf.start, pf.end) = -1
        /\ \A cx \in 0..(Len(pf.grid[1]) - 1) :
              Between(cx, pf.start, pf.end) =>
                /\ ColumnGaps(pf.grid, cx) = {} => ~pf.route.found
                /\ \A cy \in ColumnGaps(pf.grid, cx) :
                      (ColumnGaps(pf.grid, cx) = {cy} /\ pf.route.found)
                          => Pos(cx, cy) \in RouteCells

\* a route through the only gap of the column that separates start and goal
C18_Witness ==
    /\ Searched
    /\ pf.route.found
    /\ \E cx \in 0..(Len(pf.grid[1]) - 1) :
          /\ Between(cx, pf.start, pf.end)
          /\ Cardinality(ColumnGaps(pf.grid, cx)) = 1
          /\ \E cy \in ColumnGaps(pf.grid, cx) : Pos(cx, cy) \in RouteCells

\* a full-height obstacle column between walkable start and goal
C18_WallWitness ==
    /\ Searched
    /\ pf.start \in OpenCells(pf.grid)
    /\ pf.end \in OpenCells(pf.grid)
    /\ \E cx \in 0..(Len(pf.grid[1]) - 1) :
          Between(cx, pf.start, pf.end) /\ ColumnGaps(pf.grid, cx) = {}
    /\ ~pf.route.found

\* C19: findPath(p, p) for an in-bounds walkable p returns the route holding
\* p alone
C19_SamePointRoute ==
    (Searched /\ pf.start = pf.end /\ pf.start \in OpenCells(pf.grid))
        => pf.route.found /\ pf.route.path = << pf.start >>

\* a search from a walkable cell to itself has run
C19_Witness ==
    /\ Searched
    /\ pf.start = pf.end
    /\ pf.start \in OpenCells(pf.grid)
    /\ pf.route.found
    /\ Len(pf.route.path) = 1

\* a is b with some elements left out, the rest in their order
RECURSIVE IsSubsequence(_, _)
IsSubsequence(a, b) ==
    IF a = <<>> THEN TRUE
    ELSE IF b = <<>> THEN FALSE
    ELSE IF Head(a) = Head(b) THEN IsSubsequence(Tail(a), Tail(b))
    ELSE IsSubsequence(a, Tail(b))

Smoothed == pf.pc \in {"smoothed", "resmoothed"}

\* C20: for every route r returned by findPath, smooth(r) is a subsequence of
\* r, has the first and the last element of r as its first and last element,
\* and is no longer than r
C20_SmoothIsSubsequence ==
    Smoothed =>
        /\ IsSubsequence(pf.smooth, pf.route.path)
        /\ Len(pf.smooth) >= 1
        /\ pf.smooth[1] = pf.route.path[1]
        /\ pf.smooth[Len(pf.smooth)] = pf.route.path[Len(pf.route.path)]
        /\ Len(pf.smooth) <= Len(pf.route.path)

\* a smoothed route that left waypoints out and kept an inner one
C20_Witness ==
    /\ Smoothed
    /\ Len(pf.smooth) >= 3
    /\ Len(pf.smooth) < Len(pf.route.path)
    /\ IsSubsequence(pf.smooth, pf.route.path)

\* the integer nearest to num / den, den > 0, a half going upwards
Nearest(num, den) == CHOOSE n \in (-1)..(Abs(num) + 1) :
                        2 * den * n <= 2 * num + den /\ 2 * num + den < 2 * den * (n + 1)

\* the cells sampled on the straight segment from a to b
SegmentCells(a, b) ==
    LET n == IF Abs(b.x - a.x) > Abs(b.y - a.y) THEN Abs(b.x - a.x) ELSE Abs(b.y - a.y)
    IN  {Pos(Nearest(a.x * n + (b.x - a.x) * i, n), Nearest(a.y * n + (b.y - a.y) * i, n)) :
           i \in 0..n}

\* C21: for every route r returned by findPath, every two consecutive
\* waypoints of smooth(r) have a clear line of sight: every cell sampled on
\* the straight segment between them is in bounds and walkable
C21_SmoothHasLineOfSight ==
    Smoothed =>
        \A i \in 1..(Len(pf.smooth) - 1) :
            /\ pf.smooth[i] # pf.smooth[i + 1]
            /\ SegmentCells(pf.smooth[i], pf.smooth[i + 1]) \subseteq OpenCells(pf.grid)

\* a smoothed route with a diagonal segment on a grid that has an obstacle
C21_Witness ==
    /\ Smoothed
    /\ OpenCells(pf.grid) # [x : 0..(Len(pf.grid[1]) - 1), y : 0..(Len(pf.grid) - 1)]
    /\ \E i \in 1..(Len(pf.smooth) - 1) :
          /\ pf.smooth[i].x # pf.smooth[i + 1].x
          /\ pf.smooth[i].y # pf.smooth[i + 1].y
          /\ SegmentCells(pf.smooth[i], pf.smooth[i + 1]) \subseteq OpenCells(pf.grid)

\* C22: smooth is idempotent on the routes findPath produces: smoothing the
\* smoothed route gives the smoothed route again, element by element
C22_SmoothIsIdempotent ==
    pf.pc = "resmoothed" =>
        /\ Len(pf.again) = Len(pf.smooth)
        /\ \A i \in 1..Len(pf.smooth) : pf.again[i] = pf.smooth[i]

\* a route that lost waypoints in the first smoothing, smoothed again
C22_Witness ==
    /\ pf.pc = "resmoothed"
    /\ Len(pf.smooth) >= 3
    /\ Len(pf.smooth) < Len(pf.route.path)
    /\ pf.again = pf.smooth

FarCorner == Pos(OpenGridSide - 1, OpenGridSide - 1)

\* C23: on the 5x5 grid of walkable cells, findPath((0,0),(4,4)) returns a
\* route of exactly 9 positions (8 steps), and smoothing that route gives
\* exactly the two waypoints (0,0) and (4,4)
C23_OpenGridCornerToCorner ==
    (pf.grid = OpenGrid /\ pf.start = Pos(0, 0) /\ pf.end = FarCorner) =>
        /\ Searched => pf.route.found /\ Len(pf.route.path) = 2 * OpenGridSide - 1
        /\ Smoothed => pf.smooth = << Pos(0, 0), FarCorner >>

\* the corner-to-corner route of the open grid has been smoothed
C23_Witness ==
    /\ pf.grid = OpenGrid
    /\ pf.start = Pos(0, 0)
    /\ pf.end = FarCorner
    /\ pf.pc = "smoothed"
    /\ Len(pf.route.path) = 2 * OpenGridSide - 1
    /\ Len(pf.smooth) = 2

\* call c returns value v in this step
AssignReturns(c, v) == call[c].result = "pending" /\ call'[c].result = v

\* the positions in log[c]' of the assigned events
AssignedEvents(c) == {i \in 1..Len(log'[c]) : log'[c][i].type = "assigned"}

\* C24: when assign(orderId) succeeds the chosen robot is navigating, its
\* current order is orderId and its route is the smoothed route from the depot
\* to the destination; the order is delivering and names that robot; exactly
\* one assigned event with the robot id, the order id and that route has been
\* emitted; a failing assign emits no assigned event
C24_AssignResult ==
    [][\A c \in Calls :
         /\ AssignReturns(c, "true") =>
               LET r == call[c].robot
                   oid == call[c].orderId
                   route == Route(Kitchen, getTablePosition(TableOf(oid))).path
               IN  /\ robots'[r].status = "navigating"
                   /\ robots'[r].current_order_id = oid
                   /\ robots'[r].current_path = route
                   /\ orders'[oid].status = "delivering"
                   /\ orders'[oid].robot_id = r
                   /\ Cardinality(AssignedEvents(c)) = 1
                   /\ \A i \in AssignedEvents(c) :
                         /\ log'[c][i].robot = r
                         /\ log'[c][i].order = oid
                         /\ log'[c][i].path = route
         /\ AssignReturns(c, "false") => AssignedEvents(c) = {}]_vars

\* the arrival handler in slot k of task c ends in this step, with a return route
ArrivalCompletes(c, k) == ret[c][k].pc = "saveRobot" /\ ret'[c][k].pc = "timeout"

\* the positions in log[c]' of the delivered events for order oid and robot r
DeliveredEvents(c, oid, r) ==
    {i \in 1..Len(log'[c]) :
       log'[c][i].type = "delivered" /\ log'[c][i].order = oid /\ log'[c][i].robot = r}

\* C25: arrival handling for a navigating robot marks the robot's current
\* order delivered with a completion timestamp, adds one to the robot's
\* delivery counter, attaches the smoothed route from the robot's position
\* back to the depot, sets the robot's status to returning, and emits one
\* delivered event naming the order and the robot
C25_ArrivalResult ==
    [][\A c \in Calls, k \in Slots :
         (ArrivalCompletes(c, k) /\ ret[c][k].base.status = "navigating") =>
            LET r == task[c].robot
                oid == ret[c][k].oid
                was == ret[c][k].base
            IN  /\ was.current_order_id = oid
                /\ orders'[oid].status = "delivered"
                /\ orders'[oid].completed_at > 0
                /\ robots'[r].total_deliveries = was.total_deliveries + 1
                /\ robots'[r].current_path = Route(Pos(was.x, was.y), Kitchen).path
                /\ robots'[r].status = "returning"
                /\ Cardinality(DeliveredEvents(c, oid, r)) = 1]_vars

\* the arrival handler in slot k of task c ends in this step for want of a
\* return route
ArrivalEndsWithoutRoute(c, k) == ret[c][k].pc = "saveOrder" /\ ret'[c][k].pc = "ended"

ReturnCompletes(c, k) ==
    ret[c][k].finPending > 0 /\ ret'[c][k].finPending = ret[c][k].finPending - 1

\* the positions in log[c]' of the idle events of slot k
IdleEvents(c, k) ==
    {i \in 1..Len(log'[c]) : log'[c][i].type = "idle" /\ log'[c][i].slot = k}

\* C27: when the return route of a returning robot is exhausted, return
\* completion clears the robot's current order, task and route, sets its
\* position to the depot, sets its status to idle and emits one idle event
\* for that robot
C27_ReturnCompletion ==
    [][\A c \in Calls, k \in Slots :
         ReturnCompletes(c, k) =>
            LET r == task[c].robot
            IN  /\ robots'[r].current_order_id = NoId
                /\ robots'[r].current_task = <<>>
                /\ robots'[r].current_path = <<>>
                /\ robots'[r].x = Kitchen.x /\ robots'[r].y = Kitchen.y
                /\ robots'[r].status = "idle"
                /\ Cardinality(IdleEvents(c, k)) = 1
                /\ \A i \in IdleEvents(c, k) : log'[c][i].robot = r]_vars

\* call c is running or returning in this step
CallSteps(c) == call'[c] # call[c]

\* C28: an assign with an order id that does not exist, or made when no
\* layout was found at initialization, returns failure as a value, changes
\* no robot record and no order record, and emits no event
C28_MissingOrderOrLayout ==
    [][\A c \in Calls :
         (CallSteps(c) /\ (call'[c].orderId \notin OrderIds \/ ~layoutFound)) =>
            /\ robots' = robots
            /\ orders' = orders
            /\ log'[c] = <<>>
            /\ task'[c] = NoTask
            /\ call'[c].result \in {"pending", "false"}
            /\ call'[c].pc = "done" => call'[c].result = "false"]_vars

\* one assign has returned for want of the order, another for want of the layout
C28_Witness ==
    \E a, b \in Calls :
        /\ call[a].pc = "done" /\ call[a].why = "NoOrder" /\ call[a].result = "false"
        /\ call[b].pc = "done" /\ call[b].why = "NoLayout" /\ call[b].result = "false"
        /\ ~layoutFound

\* the facing for a move from one position to another
FacingOf(from, to) ==
    IF Abs(to.x - from.x) > Abs(to.y - from.y)
    THEN (IF to.x > from.x THEN "east" ELSE "west")
    ELSE (IF to.y > from.y THEN "south" ELSE "north")

\* a position event of task c is emitted in this step
PositionEmitted(c) ==
    /\ Len(log'[c]) = Len(log[c]) + 1
    /\ log'[c][Len(log'[c])].type = "position"

\* C29: every tick that moves a robot, on the outbound leg and on the return
\* leg alike, recomputes the robot's facing from its previous and its new
\* position: east or west when |dx| > |dy| (east when dx > 0), otherwise
\* south or north (south when dy > 0)
C29_FacingRecomputed ==
    [][\A c \in Calls :
         LET r == task[c].robot
         IN  (/\ PositionEmitted(c)
              /\ r \in Robots
              /\ Pos(robots'[r].x, robots'[r].y) # Pos(robots[r].x, robots[r].y)) =>
                 /\ robots'[r].facing =
                       FacingOf(Pos(robots[r].x, robots[r].y), Pos(robots'[r].x, robots'[r].y))
                 /\ log'[c][Len(log'[c])].facing = robots'[r].facing]_vars

\* a matrix with at least one row, a non-empty first row and rows of one length
Rectangular(grid) ==
    /\ Len(grid) > 0
    /\ Len(grid[1]) > 0
    /\ \A i \in 1..Len(grid) : Len(grid[i]) = Len(grid[1])

\* C30: construction from an empty matrix, from a matrix with an empty first
\* row or from a matrix with rows of unequal length fails at once, so no path
\* search object exists over a malformed grid
C30_MalformedGridRejected ==
    pf.pc \in {"new", "searched", "smoothed", "resmoothed"} => Rectangular(pf.grid)

\* C31: findPath terminates on every grid for every start and goal: a
\* position in the closed set is never in the open set again, each position is
\* expanded at most once, and the loop runs at most as many times as there are
\* walkable cells
C31_SearchIsBounded ==
    Searched =>
        /\ \A i, j \in 1..Len(pf.trace) :
              pf.trace[i].position = pf.trace[j].position => i = j
        /\ \A i \in 1..Len(pf.trace) : \A k \in 1..Len(pf.trace[i].open) :
              pf.trace[i].open[k] \notin pf.trace[i].closed
        /\ Len(pf.trace) <= Cardinality(OpenCells(pf.grid))

\* a search that expanded several cells and ended without a route
C31_Witness ==
    /\ Searched
    /\ ~pf.route.found
    /\ Len(pf.trace) >= 3
    /\ Len(pf.trace) <= Cardinality(OpenCells(pf.grid))

\* the timers that move robot r: outbound intervals, pending return timeouts
\* and return intervals that have not been cleared
MovementTimers(r) ==
    {t \in ({"outbound"} \X Calls \X {0}) \cup ({"return"} \X Calls \X Slots) :
       /\ task[t[2]].robot = r
       /\ IF t[1] = "outbound" THEN task[t[2]].pc = "running"
          ELSE ret[t[2]][t[3]].pc \in {"timeout", "running"}}

\* C32: at any time each robot has at most one active movement timer
\* (outbound interval, pending return timeout or return interval)
C32_OneTimerPerRobot == \A r \in Robots : Cardinality(MovementTimers(r)) <= 1

\* the arrival handlers started for task c
ArrivalsStarted(c) == {k \in Slots : ret[c][k].pc # "none"}

\* the return trips scheduled or started for task c
ReturnTrips(c) == {k \in Slots : ret[c][k].pc \in {"timeout", "running", "cleared"}}

\* C33: arrival handling runs once per outbound task: for each successful
\* assignment the delivery counter of the robot goes up by one, one delivered
\* event is emitted and one return trip is started, also when the timer fires
\* again while arrival handling is awaiting the store
C33_ArrivalOncePerTask ==
    /\ \A c \in Calls :
          /\ Cardinality(ArrivalsStarted(c)) <= 1
          /\ Cardinality(ReturnTrips(c)) <= 1
          /\ Cardinality({i \in 1..Len(log[c]) : log[c][i].type = "delivered"}) <= 1
    /\ \A r \in Robots :
          robots[r].total_deliveries
              <= Cardinality({c \in Calls : call[c].result = "true" /\ call[c].robot = r})

\* the arrival handler in slot k of task c saves its order as delivered in this step
MarksDelivered(c, k) == ret[c][k].pc = "saveOrder" /\ ret'[c][k].pc # "saveOrder"

\* C34: an order is marked delivered only when the robot that carries it is
\* at the destination of that order: in the step in which arrival handling
\* saves the order as delivered, the stored position of the robot is the
\* position of the order's table
C34_DeliveredAtDestination ==
    [][\A c \in Calls, k \in Slots :
         (MarksDelivered(c, k) /\ TableOf(ret[c][k].oid) \in TableNumbers) =>
            LET r == task[c].robot
            IN  Pos(robots[r].x, robots[r].y) = TableLocation(TableOf(ret[c][k].oid))]_vars

\* the robots whose current order is oid
Carriers(oid) == {r \in Robots : robots[r].current_order_id = oid}

\* C35: in every reachable state every order with status delivering is the
\* current order of exactly one robot, that robot is navigating, and the
\* order's robot slot names that robot
C35_DeliveringHasNavigatingRobot ==
    \A oid \in OrderIds :
        orders[oid].status = "delivering" =>
            /\ Cardinality(Carriers(oid)) = 1
            /\ \A r \in Carriers(oid) :
                  robots[r].status = "navigating" /\ orders[oid].robot_id = r

\* C36: in every reachable state a robot whose stored status is idle has no
\* current order reference and an empty route
C36_IdleRobotIsFree ==
    \A r \in Robots :
        robots[r].status = "idle" =>
            robots[r].current_order_id = NoId /\ robots[r].current_path = <<>>

\* the arrival handler in slot k of task c has loaded the robot
ArrivalLoaded(c, k) == ret[c][k].pc \in {"findOrder", "saveOrder", "saveRobot"}

\* the arrival handler in slot k of task c ended for want of a return route
EndedWithoutRoute(c, k) == ret[c][k].pc = "ended" /\ ret[c][k].oid # NoId

\* C37: whenever arrival handling runs for a robot whose outbound route was
\* found by findPath, a route leads from the robot's stored position to the
\* depot and the return-route search finds one; the branch without a return
\* route is never taken
C37_ReturnRouteExists ==
    \A c \in Calls, k \in Slots :
        /\ ArrivalLoaded(c, k) =>
              ShortestDistance(LayoutGrid, Pos(ret[c][k].base.x, ret[c][k].base.y), Kitchen) >= 0
        /\ ~EndedWithoutRoute(c, k)

\* arrival handling away from the depot has found its return route
C37_Witness ==
    \E c \in Calls, k \in Slots :
        /\ ret[c][k].pc = "saveRobot"
        /\ Pos(ret[c][k].base.x, ret[c][k].base.y) # Kitchen
        /\ Len(ret[c][k].mem.current_path) >= 2

\* the step starts arrival handling for task c
ArrivalTriggered(c) ==
    \E k \in Slots : ret[c][k].pc = "none" /\ ret'[c][k].pc = "findRobot"

\* the events are one per waypoint of the path, from the origin at index 0
\* to the destination at full progress (index + 1 = number of waypoints)
ReportsWholeRoute(evs, path) ==
    /\ Len(evs) = Len(path)
    /\ \A i \in 1..Len(evs) :
          /\ evs[i].idx = i - 1
          /\ evs[i].x = path[i].x
          /\ evs[i].y = path[i].y

\* C38: on the outbound leg of a route with N waypoints the task emits
\* exactly N position events, the first for the origin at index 0 and the
\* last for the destination at full progress; the firing that starts
\* arrival handling comes after these N events and emits no position event
C38_OutboundEventCount ==
    [][\A c \in Calls :
          /\ Len(SelectSeq(log'[c], IsOutboundPosition)) <= Len(task'[c].path)
          /\ ArrivalTriggered(c) =>
                /\ ReportsWholeRoute(SelectSeq(log[c], IsOutboundPosition), task[c].path)
                /\ log'[c] = log[c]]_vars

\* call c is for a stored order whose destination table does not exist
TableMissing(c) ==
    /\ call[c].orderId \in OrderIds
    /\ TableOf(call[c].orderId) \notin TableNumbers

\* C39: an assign call for an order whose destination table does not exist
\* never dispatches a robot: it does not return true, writes neither the
\* robot nor the order, emits no event and starts no movement task towards
\* a substitute position
C39_MissingTableAborts ==
    \A c \in Calls :
        TableMissing(c) =>
            /\ call[c].pc \notin {"saveRobot", "saveOrder"}
            /\ call[c].result # "true"
            /\ hist[c].wrote = {}
            /\ log[c] = <<>>
            /\ task[c].pc = "none"

\* the code of the cell at position p of the grid
CodeAt(grid, p) == grid[p.y + 1][p.x + 1]

\* p is a cell of the grid
InGrid(grid, p) ==
    /\ p.x \in 0..(Len(grid[1]) - 1)
    /\ p.y \in 0..(Len(grid) - 1)

\* p is a cell of the grid with a code other than 0
NonZeroCell(grid, p) == InGrid(grid, p) /\ CodeAt(grid, p) # 0

C40_RouteWitness ==
    /\ Searched
    /\ pf.route.found
    /\ Len(pf.route.path) >= 3
    /\ \E p, q \in [x : 0..(CodedWidth - 1), y : 0..(CodedHeight - 1)] :
          /\ InGrid(pf.grid, p) /\ CodeAt(pf.grid, p) = 2
          /\ InGrid(pf.grid, q) /\ CodeAt(pf.grid, q) = 3

====
